---- MODULE Spec2Model ----
(***************************************************************************)
(* Model of src/server.py: a health-check HTTP responder.                  *)
(*                                                                         *)
(* The process reads PORT once (line 6), prints one startup line (line    *)
(* 36), binds a socketserver.TCPServer (line 37) and serves forever (line  *)
(* 38).  TCPServer is the synchronous server: serve_forever accepts one    *)
(* connection, runs the handler to completion in the same thread, shuts    *)
(* the connection down, and only then accepts the next one.  The handler   *)
(* class is BaseHTTPRequestHandler with its default protocol HTTP/1.0:     *)
(* one request per connection.  An exception raised by do_GET / do_POST    *)
(* is caught by the server (handle_error prints a traceback), the          *)
(* connection is shut down and nothing further is written to the client.   *)
(*                                                                         *)
(* Optional values are sequences of length 0 (None) or 1 (Some).           *)
(* Header and environment strings are sequences of one-character strings;  *)
(* request bodies are sequences of byte values.  A response body is the    *)
(* dict handed to json.dumps, kept as a record.                            *)
(***************************************************************************)
EXTENDS Integers, Sequences, FiniteSets, TLC

\* ------------------------------------------------------------------ bounds
MaxConn == 3          \* connections opened by clients over a run
MaxPending == 1       \* connections waiting in the listen queue
MaxBody == 2          \* body bytes a client sends on one connection

\* ------------------------------------------------------- program constants
DefaultPort == 8080
MaxPortNumber == 65535
EphemeralPort == 49152
HOST == "0.0.0.0"

None == <<>>
Some(x) == <<x>>
IsSome(o) == Len(o) = 1
Get(o) == o[1]

\* ------------------------------------------------------------------ inputs
\* Values of the PORT environment variable (None: not set).
PortEnvs ==
    { None,
      Some(<<"9", "0", "9", "0">>),
      Some(<<"0">>),
      Some(<<"-", "1">>),
      Some(<<"a", "b", "c">>),
      Some(<<>>) }

\* Values of the Content-Length request header (None: header absent).
ContentLengthHeaders ==
    { None,
      Some(<<"0">>),
      Some(<<"1">>),
      Some(<<"2">>),
      Some(<<"-", "1">>),
      Some(<<"-", "2">>),
      Some(<<"x">>),
      Some(<<>>) }

GetPaths == {"/", "/foo/bar?x=1"}
PostPaths == {"/submit"}
OtherPaths == {"/"}

\* 65 = 'A'; 195 169 = the two-byte encoding of U+00E9; 169 alone, or 195 not
\* followed by a continuation byte, is not valid UTF-8.
BodyBytes == {65, 169, 195}

Requests ==
    [method : {"GET"}, path : GetPaths, clen : {None}]
      \cup [method : {"POST"}, path : PostPaths, clen : ContentLengthHeaders]
      \cup [method : {"PUT"}, path : OtherPaths, clen : {None}]

\* ------------------------------------------------------------- conversions
Digits == <<"0", "1", "2", "3", "4", "5", "6", "7", "8", "9">>
DigitSet == {Digits[i] : i \in 1..10}
DigitVal(c) == (CHOOSE i \in 1..10 : Digits[i] = c) - 1
IsDigits(s) == Len(s) > 0 /\ \A i \in 1..Len(s) : s[i] \in DigitSet

RECURSIVE DecVal(_)
DecVal(s) ==
    IF s = <<>> THEN 0
    ELSE DecVal(SubSeq(s, 1, Len(s) - 1)) * 10 + DigitVal(s[Len(s)])

\* int(s) of Python for a string of digits with an optional sign; any other
\* string raises ValueError (ok = FALSE).
ParseInt(s) ==
    IF IsDigits(s) THEN [ok |-> TRUE, val |-> DecVal(s)]
    ELSE IF Len(s) > 1 /\ s[1] \in {"-", "+"} /\ IsDigits(Tail(s))
         THEN [ok |-> TRUE,
               val |-> IF s[1] = "-" THEN 0 - DecVal(Tail(s)) ELSE DecVal(Tail(s))]
         ELSE [ok |-> FALSE, val |-> 0]

\* bytes.decode('utf-8') on one- and two-byte sequences: the code points, or
\* ok = FALSE where Python raises UnicodeDecodeError.
RECURSIVE Utf8Decode(_)
Utf8Decode(b) ==
    IF b = <<>> THEN [ok |-> TRUE, text |-> <<>>]
    ELSE IF b[1] < 128
         THEN LET r == Utf8Decode(Tail(b))
              IN  [ok |-> r.ok, text |-> <<b[1]>> \o r.text]
    ELSE IF b[1] \in 194..223 /\ Len(b) >= 2 /\ b[2] \in 128..191
         THEN LET r == Utf8Decode(SubSeq(b, 3, Len(b)))
              IN  [ok |-> r.ok,
                   text |-> <<(b[1] - 192) * 64 + (b[2] - 128)>> \o r.text]
    ELSE [ok |-> FALSE, text |-> <<>>]

\* ------------------------------------------------------------------- state
VARIABLES
    env,            \* os.environ.get("PORT"): None or Some(string)
    pc,             \* main module: "import", "print", "bind", "serving", "exited"
    PORT,           \* module global PORT: None before line 6 ran
    stdout,         \* lines printed
    bound,          \* port the listening socket is bound to
    exitcause,      \* "none", "config" (line 6 raised), "bind" (line 37 raised)
    backlog,        \* ids of the connections waiting to be accepted, oldest first
    nconn,          \* connections opened so far
    cur,            \* connection the server thread is handling
    hpc,            \* handler position
    content_length, \* do_POST local
    consumed,       \* body bytes the handler took from rfile
    body,           \* do_POST local: decoded text
    resp,           \* response the client received on cur
    err,            \* exception that ended the handler
    sent,           \* body bytes the client of cur has sent
    cstate,         \* client of cur: "open", "shut" (write side closed), "closed"
    firstGet,       \* observer: path -> first GET response of a finished exchange
    anyFailed       \* observer: some earlier request ended in an exception

vars == <<env, pc, PORT, stdout, bound, exitcause, backlog, nconn, cur, hpc,
          content_length, consumed, body, resp, err, sent, cstate, firstGet,
          anyFailed>>

mainVars == <<env, pc, PORT, stdout, bound, exitcause>>
handlerVars == <<content_length, consumed, body, resp, err>>
clientVars == <<sent, cstate>>
observerVars == <<firstGet, anyFailed>>

Init ==
    /\ env \in PortEnvs
    /\ pc = "import"
    /\ PORT = None
    /\ stdout = <<>>
    /\ bound = None
    /\ exitcause = "none"
    /\ backlog = <<>>
    /\ nconn = 0
    /\ cur = None
    /\ hpc = "idle"
    /\ content_length = 0
    /\ consumed = <<>>
    /\ body = <<>>
    /\ resp = None
    /\ err = "none"
    /\ sent = <<>>
    /\ cstate = "open"
    /\ firstGet = [p \in GetPaths |-> None]
    /\ anyFailed = FALSE

\* ----------------------------------------------------------------- startup
\* Mutant of PortFromEnv: an unparseable PORT falls back to the default.
PortFromEnvFallback(e) ==
    IF e = None \/ ~ParseInt(Get(e)).ok
    THEN [ok |-> TRUE, val |-> DefaultPort]
    ELSE ParseInt(Get(e))

\* Line 6: int(os.environ.get("PORT", 8080)).
PortFromEnv(e) ==
    IF e = None THEN [ok |-> TRUE, val |-> DefaultPort] ELSE ParseInt(Get(e))

\* Line 6 runs at import: a ValueError here ends the process.
ReadPort ==
    /\ pc = "import"
    /\ LET r == PortFromEnv(env)
       IN  IF r.ok
           THEN /\ PORT' = Some(r.val)
                /\ pc' = "print"
                /\ exitcause' = exitcause
           ELSE /\ PORT' = PORT
                /\ pc' = "exited"
                /\ exitcause' = "config"
    /\ UNCHANGED <<env, stdout, bound, backlog, nconn, cur, hpc, handlerVars,
                   clientVars, observerVars>>

StartupLine(port) == [host |-> HOST, port |-> port]

\* Line 36: print(f"Starting server on {HOST}:{PORT}").
PrintStartup ==
    /\ pc = "print"
    /\ stdout' = Append(stdout, StartupLine(Get(PORT)))
    /\ pc' = "bind"
    /\ UNCHANGED <<env, PORT, bound, exitcause, backlog, nconn, cur, hpc,
                   handlerVars, clientVars, observerVars>>

\* The port bind() gives a socket asked for port p: p itself, or a port the
\* operating system picks when p is 0.
BoundPort(p) == IF p = 0 THEN EphemeralPort ELSE p

\* Line 37: TCPServer((HOST, PORT), Handler) binds and listens.  bind() raises
\* OverflowError for a port outside 0..65535 and OSError when the address is
\* in use or not permitted; either ends the process.
Bind ==
    /\ pc = "bind"
    /\ \/ /\ Get(PORT) \in 0..MaxPortNumber
          /\ bound' = Some(BoundPort(Get(PORT)))
          /\ pc' = "serving"
          /\ exitcause' = exitcause
       \/ /\ bound' = bound
          /\ pc' = "exited"
          /\ exitcause' = "bind"
    /\ UNCHANGED <<env, PORT, stdout, backlog, nconn, cur, hpc, handlerVars,
                   clientVars, observerVars>>

\* ----------------------------------------------------------------- clients
\* A client connects: the connection waits in the listen queue until the
\* server thread accepts it.  What the client sends on it is read only after
\* the accept.
Connect ==
    /\ pc = "serving"
    /\ nconn < MaxConn
    /\ Len(backlog) < MaxPending
    /\ nconn' = nconn + 1
    /\ backlog' = Append(backlog, nconn + 1)
    /\ UNCHANGED <<mainVars, cur, hpc, handlerVars, clientVars, observerVars>>

InHandler == hpc \notin {"idle", "done"}

\* The client of the connection being handled sends one more body byte.
\* (Bytes sent while the connection waits in the listen queue reach the
\* handler in the same order, so they are sent here, after the accept.)
ClientSend(b) ==
    /\ InHandler
    /\ Get(cur).method = "POST"
    /\ cstate = "open"
    /\ Len(sent) < MaxBody
    /\ sent' = Append(sent, b)
    /\ UNCHANGED <<mainVars, backlog, nconn, cur, hpc, handlerVars, cstate,
                   observerVars>>

\* The client closes its sending side: the handler's read sees end of file.
ClientShutdown ==
    /\ InHandler
    /\ cstate = "open"
    /\ cstate' = "shut"
    /\ UNCHANGED <<mainVars, backlog, nconn, cur, hpc, handlerVars, sent,
                   observerVars>>

\* The client closes the connection: it can no longer receive a response.
ClientClose ==
    /\ InHandler
    /\ cstate \in {"open", "shut"}
    /\ cstate' = "closed"
    /\ UNCHANGED <<mainVars, backlog, nconn, cur, hpc, handlerVars, sent,
                   observerVars>>

\* ------------------------------------------------------------------ server
\* BaseHTTPRequestHandler.handle_one_request: the method named do_<command>,
\* or send_error(501) when the handler class has none.
EntryPoint(method) ==
    IF method = "GET" THEN "do_GET"
    ELSE IF method = "POST" THEN "do_POST"
    ELSE "unsupported"

\* Line 38, serve_forever: with no handler running, the server thread accepts
\* the oldest waiting connection and runs the handler on it in this thread;
\* the handler reads the request line and headers r the client sent.
Accept ==
    /\ pc = "serving"
    /\ hpc = "idle"
    /\ backlog # <<>>
    /\ \E r \in Requests :
          /\ cur' = Some([id |-> Head(backlog), method |-> r.method,
                          path |-> r.path, clen |-> r.clen])
          /\ hpc' = EntryPoint(r.method)
    /\ backlog' = Tail(backlog)
    /\ UNCHANGED <<mainVars, nconn, handlerVars, clientVars, observerVars>>

\* Mutant of Raise: the exception is not caught and ends the process.
RaiseUncaught(e) ==
    /\ err' = e
    /\ hpc' = "done"
    /\ pc' = "exited"

\* An exception leaves the handler: BaseServer catches it, prints a
\* traceback and goes on to shut the connection down; the process keeps
\* serving and the client is sent nothing more.
Raise(e) ==
    /\ err' = e
    /\ hpc' = "done"
    /\ pc' = pc

Return ==
    /\ err' = "none"
    /\ hpc' = "done"
    /\ pc' = pc

\* send_response / send_header / end_headers / wfile.write: the client gets
\* the response unless it has closed the connection; writing to a closed
\* connection either goes unnoticed or raises BrokenPipeError.
Write(r) ==
    IF cstate = "closed"
    THEN /\ resp' = None
         /\ (Return \/ Raise("BrokenPipeError"))
    ELSE /\ resp' = Some(r)
         /\ Return

JsonResponse(b) == [status |-> 200, ctype |-> "application/json", body |-> b]

\* Mutant of GetBody: the query string is dropped from the echoed path.
GetBodyNoQuery(path) ==
    [status |-> "healthy", port |-> Get(PORT), method |-> "GET",
     path |-> IF path = "/foo/bar?x=1" THEN "/foo/bar" ELSE path]

\* Mutant of GetBody: the response carries a per-request counter.
GetBodyCounting(path) ==
    [status |-> "healthy", port |-> Get(PORT), method |-> "GET", path |-> path,
     served |-> nconn]

\* Lines 14-19: the dict do_GET serialises.
GetBody(path) ==
    [status |-> "healthy", port |-> Get(PORT), method |-> "GET", path |-> path]

\* Mutant of BodyReceived: decided by the declared length, not by the body.
BodyReceivedFromLength(text) == content_length # 0

\* Line 33: True if body else False.
BodyReceived(text) == text # <<>>

\* Mutant of PostBody: the default port is reported, whatever PORT is.
PostBodyDefaultPort(path, text) ==
    [status |-> "healthy", port |-> DefaultPort, method |-> "POST", path |-> path,
     body_received |-> BodyReceived(text)]

\* Lines 28-34: the dict do_POST serialises.
PostBody(path, text) ==
    [status |-> "healthy", port |-> Get(PORT), method |-> "POST", path |-> path,
     body_received |-> BodyReceived(text)]

\* Lines 10-19.
DoGET ==
    /\ hpc = "do_GET"
    /\ Write(JsonResponse(GetBody(Get(cur).path)))
    /\ UNCHANGED <<env, PORT, stdout, bound, exitcause, backlog, nconn, cur,
                   content_length, consumed, body, clientVars, observerVars>>

\* A method other than GET and POST: send_error(501).
SendError501 ==
    /\ hpc = "unsupported"
    /\ Write([status |-> 501, ctype |-> "text/html;charset=utf-8",
              body |-> [message |-> "Unsupported method"]])
    /\ UNCHANGED <<env, PORT, stdout, bound, exitcause, backlog, nconn, cur,
                   content_length, consumed, body, clientVars, observerVars>>

\* Line 22: int(self.headers.get('Content-Length', 0)).
ContentLengthOf(h) ==
    IF h = None THEN [ok |-> TRUE, val |-> 0] ELSE ParseInt(Get(h))

DoPOST_ContentLength ==
    /\ hpc = "do_POST"
    /\ LET r == ContentLengthOf(Get(cur).clen)
       IN  IF r.ok
           THEN /\ content_length' = r.val
                /\ hpc' = "read"
                /\ err' = err
                /\ pc' = pc
           ELSE /\ content_length' = content_length
                /\ Raise("ValueError")
    /\ UNCHANGED <<env, PORT, stdout, bound, exitcause, backlog, nconn, cur,
                   consumed, body, resp, clientVars, observerVars>>

EndOfFile == cstate # "open"

\* rfile.read(n) returns once n bytes have arrived or the client has closed
\* its sending side; rfile.read(-1) returns at end of file only.
ReadReady(n) == (n > 0 /\ Len(sent) >= n) \/ EndOfFile

\* Mutant of ReadResult: the read ignores the declared length.
ReadResultAll(n) == sent

\* What rfile.read(n) returns: the first n bytes, or all that was sent before
\* end of file.
ReadResult(n) ==
    IF n > 0 /\ Len(sent) >= n THEN SubSeq(sent, 1, n) ELSE sent

\* Line 23: self.rfile.read(content_length).decode('utf-8') if content_length
\* else ''.  read(n) raises ValueError for n < -1.
DoPOST_Read ==
    /\ hpc = "read"
    /\ IF content_length = 0
       THEN /\ consumed' = consumed
            /\ body' = <<>>
            /\ hpc' = "respond"
            /\ err' = err
            /\ pc' = pc
       ELSE IF content_length < -1
       THEN /\ consumed' = consumed
            /\ body' = body
            /\ Raise("ValueError")
       ELSE /\ ReadReady(content_length)
            /\ consumed' = ReadResult(content_length)
            /\ LET d == Utf8Decode(consumed')
               IN  IF d.ok
                   THEN /\ body' = d.text
                        /\ hpc' = "respond"
                        /\ err' = err
                        /\ pc' = pc
                   ELSE /\ body' = body
                        /\ Raise("UnicodeDecodeError")
    /\ UNCHANGED <<env, PORT, stdout, bound, exitcause, backlog, nconn, cur,
                   content_length, resp, clientVars, observerVars>>

\* Lines 25-34.
DoPOST_Respond ==
    /\ hpc = "respond"
    /\ Write(JsonResponse(PostBody(Get(cur).path, body)))
    /\ UNCHANGED <<env, PORT, stdout, bound, exitcause, backlog, nconn, cur,
                   content_length, consumed, body, clientVars, observerVars>>

\* BaseServer.shutdown_request: the handler is over (returned or raised); the
\* connection is closed and the server thread is back in its accept loop.
Finish ==
    /\ hpc = "done"
    /\ cur' = None
    /\ hpc' = "idle"
    /\ content_length' = 0
    /\ consumed' = <<>>
    /\ body' = <<>>
    /\ resp' = None
    /\ err' = "none"
    /\ sent' = <<>>
    /\ cstate' = "open"
    /\ anyFailed' = (anyFailed \/ err # "none")
    /\ firstGet' =
         IF Get(cur).method = "GET" /\ IsSome(resp) /\ firstGet[Get(cur).path] = None
         THEN [firstGet EXCEPT ![Get(cur).path] = resp]
         ELSE firstGet
    /\ UNCHANGED <<mainVars, backlog, nconn>>

ServerStep ==
    \/ ReadPort
    \/ PrintStartup
    \/ Bind
    \/ Accept
    \/ DoGET
    \/ SendError501
    \/ DoPOST_ContentLength
    \/ DoPOST_Read
    \/ DoPOST_Respond
    \/ Finish

ClientStep ==
    \/ Connect
    \/ \E b \in BodyBytes : ClientSend(b)
    \/ ClientShutdown
    \/ ClientClose

Next == ServerStep \/ ClientStep

Spec == Init /\ [][Next]_vars

\* ================================================================== claims
Req == Get(cur)
HandlerOver == hpc = "done"
IsPost == cur # None /\ Req.method = "POST"
IsGet == cur # None /\ Req.method = "GET"
Answered == IsSome(resp)

\* The Content-Length header is present and int() rejects it.
InvalidLength == IsPost /\ Req.clen # None /\ ~ParseInt(Get(Req.clen)).ok

\* The handler got past line 23: the response is about to be, or has been,
\* written.
PastRead ==
    IsPost /\ (hpc = "respond" \/ (HandlerOver /\ err \in {"none", "BrokenPipeError"}))

\* The handler waits in rfile.read for bytes the client has not sent.
Blocked ==
    /\ hpc = "read"
    /\ content_length # 0
    /\ content_length >= -1
    /\ ~ReadReady(content_length)

\* C1: every POST response has status 200 and body_received true iff the
\* body the handler read is non-empty: true when a non-empty body was sent
\* with a matching positive Content-Length, false when nothing was sent, when
\* Content-Length is 0 and when the header is absent.
C1_BodyReceived ==
    (HandlerOver /\ IsPost /\ Answered) =>
        LET b == Get(resp).body
            n == ParseInt(Get(Req.clen))
        IN  /\ Get(resp).status = 200
            /\ b.body_received = (consumed # <<>>)
            /\ (Req.clen # None /\ n.ok /\ n.val > 0 /\ Len(sent) = n.val
                  => b.body_received = TRUE)
            /\ (sent = <<>> => b.body_received = FALSE)
            /\ (Req.clen = None => b.body_received = FALSE)
            /\ (Req.clen # None /\ n.ok /\ n.val = 0 => b.body_received = FALSE)

\* A POST with Content-Length 2 and the two bytes of one non-ASCII character
\* was answered body_received = true.
C1_Witness ==
    /\ HandlerOver /\ IsPost /\ Answered
    /\ Req.clen = Some(<<"2">>)
    /\ sent = <<195, 169>>
    /\ Len(body) = 1
    /\ Get(resp).body.body_received = TRUE

\* C2 (as claimed): a POST whose Content-Length is present but not an
\* integer reads no body bytes and is answered 200 with body_received false.
C2_InvalidLengthAnswered ==
    (HandlerOver /\ InvalidLength /\ cstate # "closed") =>
        /\ consumed = <<>>
        /\ Answered
        /\ Get(resp).status = 200
        /\ Get(resp).body.body_received = FALSE

\* C3 (as claimed): while the handler of one connection is blocked in the
\* body read, a connection waiting in the listen queue can be accepted.
C3_AcceptWhileBlocked ==
    (Blocked /\ backlog # <<>>) => ENABLED Accept

WellFormed ==
    \/ IsGet
    \/ /\ IsPost
       /\ Req.clen = None \/ (ParseInt(Get(Req.clen)).ok /\ ParseInt(Get(Req.clen)).val >= 0)
       /\ Utf8Decode(consumed).ok

\* C4: a failing request never takes the listener out of the serving state:
\* once serving it stays serving; whenever no handler runs it accepts the next
\* waiting connection; and a well-formed GET or POST whose client is still
\* connected is answered 200, whatever happened before.
C4_ListenerSurvives ==
    /\ [][pc = "serving" => pc' = "serving"]_vars
    /\ [](pc = "serving" /\ hpc = "idle" /\ backlog # <<>> => ENABLED Accept)
    /\ []((HandlerOver /\ WellFormed /\ cstate # "closed")
            => (Answered /\ Get(resp).status = 200 /\ err = "none"))

\* After an earlier request ended in an exception, a well-formed request is
\* answered 200.
C4_Witness ==
    /\ anyFailed
    /\ pc = "serving"
    /\ HandlerOver /\ WellFormed
    /\ Answered /\ Get(resp).status = 200

\* C5 (as claimed): a POST whose body bytes are not valid UTF-8 gets an HTTP
\* response signalling the failure.
C5_DecodeErrorAnswered ==
    (HandlerOver /\ IsPost /\ ~Utf8Decode(consumed).ok /\ cstate # "closed") =>
        (Answered /\ Get(resp).status # 200)

\* C6: every GET whose client is still connected is answered with status
\* 200, Content-Type application/json and the body {status: "healthy", port,
\* method: "GET", path} with path exactly the request target; a client that
\* has closed the connection receives nothing.
C6_GetResponse ==
    (HandlerOver /\ IsGet) =>
        IF cstate = "closed" THEN ~Answered
        ELSE /\ Answered
             /\ Get(resp) = [status |-> 200, ctype |-> "application/json",
                             body |-> [status |-> "healthy", port |-> Get(PORT),
                                       method |-> "GET", path |-> Req.path]]

C6_Witness ==
    /\ HandlerOver /\ IsGet /\ Answered
    /\ Req.path = "/foo/bar?x=1"
    /\ Get(resp).body.path = "/foo/bar?x=1"

\* C7 (as claimed): the port field of every response equals the port the
\* listener is bound to.
C7_PortIsBoundPort ==
    (Answered /\ Get(resp).status = 200) => Get(resp).body.port = Get(bound)

\* C7 (amended): the port field of every GET and POST response equals the
\* configured PORT (8080 when the variable is not set), which is the port the
\* listener is bound to unless it is 0; PORT and the bound port never change
\* once set.
C7_PortIsConfiguredPort ==
    /\ []((Answered /\ Get(resp).status = 200) =>
            LET port == Get(resp).body.port
            IN  /\ port = Get(PORT)
                /\ (env = None => port = 8080)
                /\ (env = Some(<<"9", "0", "9", "0">>) => port = 9090)
                /\ (env = Some(<<"0">>) => port = 0)
                /\ (port # 0 => port = Get(bound)))
    /\ [][IsSome(PORT) => PORT' = PORT]_vars
    /\ [][IsSome(bound) => bound' = bound]_vars

\* With PORT=9090, the third request, a POST, is answered with port 9090.
C7_Witness ==
    /\ env = Some(<<"9", "0", "9", "0">>)
    /\ HandlerOver /\ IsPost /\ Answered
    /\ Req.id = 3
    /\ Get(resp).body.port = 9090
    /\ bound = Some(9090)

\* C8: a GET for a path is answered with the same response as the first GET
\* answered for that path on an earlier connection, whatever requests were
\* handled in between.
C8_GetDeterministic ==
    (HandlerOver /\ IsGet /\ Answered /\ IsSome(firstGet[Req.path])) =>
        resp = firstGet[Req.path]

\* The third request is a GET for a path that an earlier connection's GET
\* was answered for, the other earlier request ended in an exception, and
\* this GET got its response.
C8_Witness ==
    /\ HandlerOver /\ IsGet /\ Answered
    /\ Req.id = 3
    /\ IsSome(firstGet[Req.path])
    /\ anyFailed

ConfigInvalid == env # None /\ ~ParseInt(Get(env)).ok

\* C9 (as claimed): a non-integer PORT ends the process before the startup
\* line, the bind and any request; with any other PORT the startup line is
\* printed exactly once and the process never exits.
C9_ValidPortServes ==
    /\ ConfigInvalid =>
          /\ pc \in {"import", "exited"}
          /\ stdout = <<>> /\ bound = None /\ nconn = 0
    /\ ~ConfigInvalid =>
          /\ pc # "exited"
          /\ Len(stdout) <= 1
          /\ (pc \in {"bind", "serving"} => Len(stdout) = 1)

\* C9 (amended): a non-integer PORT ends the process before the startup
\* line, the bind and any request.  With any other PORT the startup line is
\* printed exactly once, before the bind; the process exits only when the
\* bind fails, having served nothing; and once serving it serves for ever.
C9_StartupOutcome ==
    /\ [](ConfigInvalid =>
            /\ pc \in {"import", "exited"}
            /\ (pc = "exited" => exitcause = "config")
            /\ stdout = <<>> /\ bound = None /\ nconn = 0)
    /\ [](~ConfigInvalid =>
            /\ Len(stdout) = (IF pc = "import" \/ pc = "print" THEN 0 ELSE 1)
            /\ (stdout # <<>> => stdout[1] = [host |-> "0.0.0.0", port |-> Get(PORT)])
            /\ (pc = "exited" => exitcause = "bind" /\ bound = None /\ nconn = 0)
            /\ (pc = "serving" <=> IsSome(bound)))
    /\ [][pc = "serving" => pc' = "serving"]_vars
    /\ [][pc = "exited" => pc' = "exited"]_vars

\* Invalid PORT: the process has exited without output.
C9_Witness ==
    /\ env = Some(<<"a", "b", "c">>)
    /\ pc = "exited"
    /\ exitcause = "config"
    /\ stdout = <<>>

====
